---- MODULE Spec2Model ----
(***************************************************************************)
(* Model of AuctionDimensionExtractor (final_piasa_extraction_script.py):  *)
(* item-count detection, 2D/3D classification, dimension extraction, lot   *)
(* expansion, shipping standardisation and the per-lot output rows.        *)
(*                                                                         *)
(* A lot text is abstracted to what the code's substring tests and regular *)
(* expressions can see of it:                                              *)
(*   words : the vocabulary words written anywhere in the lowercased text  *)
(*   ens   : the digit string N of the first "ensemble de N" (<<>> if none)*)
(*   head  : the vocabulary words written in the first 400 characters      *)
(*   segs  : the segments between ';' / newline, each with its labeled     *)
(*           H/L/P/diameter number tokens in order of occurrence and its   *)
(*           first unlabeled "n x n [x n] cm" group                        *)
(* Numbers are carried in tenths (45,5 cm is 455); NULL is Python's None / *)
(* an absent dictionary key.                                               *)
(***************************************************************************)
EXTENDS Integers, Sequences, FiniteSets

VARIABLES lot_text, pc, item_count, count_flags, item_type, type_flags,
          dim_sets, all_flags, lot_data, results

vars == <<lot_text, pc, item_count, count_flags, item_type, type_flags,
          dim_sets, all_flags, lot_data, results>>

NULL == -1

(* ------------------------------- bounds -------------------------------- *)
MaxEnsemble == 4
MaxSegments == 3
MaxInt == 2
MaxDimSegments == 2

(* --------------------------- program constants ------------------------- *)
FlatDepth == 50
HighCount == 10

ignore_terms ==
    {"provenance", "bibliographie", "catalogue", "album",
     "exposition", "collection", "galerie", "musee"}

number_words ==
    << <<"deux", 2>>, <<"trois", 3>>, <<"quatre", 4>>, <<"cinq", 5>>,
       <<"six", 6>>, <<"sept", 7>>, <<"huit", 8>>, <<"neuf", 9>>,
       <<"dix", 10>>, <<"onze", 11>>, <<"douze", 12>>, <<"treize", 13>>,
       <<"quatorze", 14>>, <<"quinze", 15>>>>

true_2d_materials ==
    {"huile", "gouache", "aquarelle", "acrylique", "pastel", "crayon",
     "dessin", "gravure", "lithographie", "serigraphie", "estampe",
     "papier", "toile", "canvas", "carton", "technique mixte",
     "oil", "watercolor", "acrylic", "drawing", "print", "painting",
     "encre", "fusain", "sanguine", "collage", "mixed media",
     "offset", "monotype", "cyanotype", "albumine", "heliogravure"}

assemblage_keywords == {"assemblage", "relief", "construction"}

(* ------------------------- substring containment ----------------------- *)
(* The pairs <<s, w>> of distinct modelled words with s a substring of w.  *)
SubstringPairs ==
    { <<"pair", "paire">>, <<"pair", "paires">>, <<"pair", "paire de">>,
      <<"paire", "paires">>, <<"paire", "paire de">>,
      <<"paire d", "paire de">>,
      <<"l", "taille">>, <<"l", "xl">>, <<"s", "xs">>,
      <<"oil", "toile">>, <<"acrylic", "acrylique">>,
      <<"panel", "panels">> }

\* `s in text_lower`, for the text whose vocabulary words are ws
Occurs(s, ws) == \E w \in ws : w = s \/ <<s, w>> \in SubstringPairs

(* ------------------------------ numbers -------------------------------- *)
\* a number token matched by (\d+(?:[.,]\d+)?): integer part, separator
\* ("" when there is no decimal part) and one decimal digit
Token(ip, sep, fp) == [ip |-> ip, sep |-> sep, fp |-> fp]

\* float(str(s).strip().replace(",", ".")), in tenths
normalize_number(s) ==
    IF s.sep = "" THEN s.ip * 10 ELSE s.ip * 10 + s.fp

\* int(m.group(1)) of a digit string
RECURSIVE int(_)
int(ds) == IF ds = <<>> THEN 0
           ELSE int(SubSeq(ds, 1, Len(ds) - 1)) * 10 + ds[Len(ds)]

(* --------------------------- detect_item_count ------------------------- *)
RECURSIVE NumberWordScan(_, _, _)
\* the for-loop over number_words.items() from index i on
NumberWordScan(i, text, flags) ==
    IF i > Len(number_words) THEN [count |-> 1, flags |-> flags]
    ELSE IF /\ Occurs(number_words[i][1], text.words)
            /\ ~ \E ignore \in {"collection", "galerie"} :
                     Occurs(ignore, text.words)
         THEN [count |-> number_words[i][2],
               flags |-> IF number_words[i][2] > HighCount
                         THEN Append(flags, "HIGH_COUNT") ELSE flags]
         ELSE NumberWordScan(i + 1, text, flags)

detect_item_count(text) ==
    LET has_ignore == \E term \in ignore_terms : Occurs(term, text.words)
        flags1 == IF Occurs("chaque", text.words)
                  THEN <<"CHAQUE_DETECTED">> ELSE <<>>
    IN  IF has_ignore /\ (Occurs("paire de", text.words)
                          \/ Occurs("paire d", text.words))
        THEN [count |-> 2, flags |-> <<>>]
        ELSE IF has_ignore /\ text.ens # <<>>
        THEN [count |-> int(text.ens), flags |-> <<>>]
        ELSE IF Occurs("paire", text.words) \/ Occurs("pair", text.words)
        THEN [count |-> 2,
              flags |-> IF Occurs("rideau", text.words)
                           \/ Occurs("curtain", text.words)
                        THEN Append(flags1, "CURTAIN_PAIR_COUNT")
                        ELSE flags1]
        ELSE IF text.ens # <<>>
        THEN [count |-> int(text.ens),
              flags |-> IF int(text.ens) > HighCount
                        THEN Append(flags1, "HIGH_COUNT") ELSE flags1]
        ELSE NumberWordScan(1, text, flags1)

(* --------------------------- classify_item_type ------------------------ *)
\* classify_item_type with the plain 2D-material test made before the
\* assemblage test
classify_item_type_materialFirst(text) ==
    LET text_lower == text.head
        has_2d_material == \E mat \in true_2d_materials : Occurs(mat, text_lower)
        has_assemblage == \E kw \in assemblage_keywords : Occurs(kw, text_lower)
    IN  IF /\ Occurs("taille", text_lower)
           /\ \E size \in {"xs", "s", "m", "l", "xl"} : Occurs(size, text_lower)
        THEN [type |-> "MANUAL_CHECK", flags |-> <<"FASHION_ITEM">>]
        ELSE IF Occurs("decadrer", text_lower)
        THEN [type |-> "2D", flags |-> <<"DECADRER_2D">>]
        ELSE IF /\ (Occurs("technique mixte", text_lower)
                    \/ Occurs("mixed media", text_lower))
                /\ Occurs("toile", text_lower)
        THEN [type |-> "2D", flags |-> <<"TECHNIQUE_MIXTE_TOILE_RECLASSIFIED">>]
        ELSE IF has_2d_material
        THEN [type |-> "2D", flags |-> <<>>]
        ELSE IF has_assemblage
        THEN [type |-> "3D", flags |-> <<"ASSEMBLAGE_3D_MANUAL_CHECK">>]
        ELSE IF Occurs("panneau", text_lower) \/ Occurs("panel", text_lower)
        THEN [type |-> "3D", flags |-> <<"PANEL_OBJECT_3D">>]
        ELSE [type |-> "3D", flags |-> <<>>]

classify_item_type(text) ==
    LET text_lower == text.head
        has_2d_material == \E mat \in true_2d_materials : Occurs(mat, text_lower)
        has_assemblage == \E kw \in assemblage_keywords : Occurs(kw, text_lower)
    IN  IF /\ Occurs("taille", text_lower)
           /\ \E size \in {"xs", "s", "m", "l", "xl"} : Occurs(size, text_lower)
        THEN [type |-> "MANUAL_CHECK", flags |-> <<"FASHION_ITEM">>]
        ELSE IF Occurs("decadrer", text_lower)
        THEN [type |-> "2D", flags |-> <<"DECADRER_2D">>]
        ELSE IF has_assemblage
        THEN [type |-> "3D", flags |-> <<"ASSEMBLAGE_3D_MANUAL_CHECK">>]
        ELSE IF /\ (Occurs("technique mixte", text_lower)
                    \/ Occurs("mixed media", text_lower))
                /\ Occurs("toile", text_lower)
        THEN [type |-> "2D", flags |-> <<"TECHNIQUE_MIXTE_TOILE_RECLASSIFIED">>]
        ELSE IF /\ (Occurs("panneau", text_lower) \/ Occurs("panel", text_lower))
                /\ ~ has_2d_material
        THEN [type |-> "3D", flags |-> <<"PANEL_OBJECT_3D">>]
        ELSE IF has_2d_material
        THEN [type |-> "2D", flags |-> <<>>]
        ELSE [type |-> "3D", flags |-> <<>>]

(* --------------------------- extract_dimensions ------------------------ *)
NoDims == [h |-> NULL, l |-> NULL, p |-> NULL, diameter |-> NULL, d |-> NULL]

\* pattern.search(segment): the first token after the label, if any
FirstOf(tokens) == IF tokens = <<>> THEN NULL ELSE normalize_number(tokens[1])

\* SegmentDims with the unlabeled group tried before the labeled tokens
SegmentDims_unlabeledFirst(segment) ==
    LET labeled == [NoDims EXCEPT !.h = FirstOf(segment.h),
                                  !.l = FirstOf(segment.l),
                                  !.p = FirstOf(segment.p),
                                  !.diameter = FirstOf(segment.diameter)]
    IN  IF segment.unlabeled # <<>>
        THEN [NoDims EXCEPT
                !.h = normalize_number(segment.unlabeled[1]),
                !.l = normalize_number(segment.unlabeled[2]),
                !.p = IF Len(segment.unlabeled) = 3
                      THEN normalize_number(segment.unlabeled[3]) ELSE NULL]
        ELSE labeled

\* the dims dictionary built for one segment
SegmentDims(segment) ==
    LET labeled == [NoDims EXCEPT !.h = FirstOf(segment.h),
                                  !.l = FirstOf(segment.l),
                                  !.p = FirstOf(segment.p),
                                  !.diameter = FirstOf(segment.diameter)]
    IN  IF labeled # NoDims THEN labeled
        ELSE IF segment.unlabeled # <<>>
        THEN [NoDims EXCEPT
                !.h = normalize_number(segment.unlabeled[1]),
                !.l = normalize_number(segment.unlabeled[2]),
                !.p = IF Len(segment.unlabeled) = 3
                      THEN normalize_number(segment.unlabeled[3]) ELSE NULL]
        ELSE NoDims

RECURSIVE extract_dimensions_from(_)
extract_dimensions_from(segments) ==
    IF segments = <<>> THEN <<>>
    ELSE LET dims == SegmentDims(Head(segments))
             rest == extract_dimensions_from(Tail(segments))
         IN  IF dims # NoDims THEN <<dims>> \o rest ELSE rest

extract_dimensions(text) == extract_dimensions_from(text.segs)

(* --------------------------- apply_shipping_rules ---------------------- *)
Max(a, b) == IF a >= b THEN a ELSE b

\* dims.get(key, 0) or 0
GetOrZero(v) == IF v = NULL THEN 0 ELSE v

\* `key in dims and dims[key]`: present and truthy (non-zero)
Truthy(v) == v # NULL /\ v # 0

\* ShipOne with the 2D length taken as the smaller of H and L
ShipOne_min(dims, type) ==
    IF type = "2D"
    THEN LET h == GetOrZero(dims.h)
             l == GetOrZero(dims.l)
             min_dim == IF h <= l THEN h ELSE l
         IN  [dims |-> [dims EXCEPT !.l = IF min_dim > 0 THEN min_dim ELSE @,
                                    !.d = FlatDepth],
              log |-> (IF min_dim > 0 THEN <<"L=max(H,L)">> ELSE <<>>)
                      \o <<"D=5 (2D)">>,
              flag |-> FALSE]
    ELSE IF Truthy(dims.diameter)
    THEN [dims |-> [dims EXCEPT !.l = dims.diameter, !.d = dims.diameter],
          log |-> <<"L=O, D=O">>, flag |-> FALSE]
    ELSE IF Truthy(dims.p)
    THEN [dims |-> [dims EXCEPT !.d = dims.p],
          log |-> <<"D=P">>, flag |-> FALSE]
    ELSE IF dims.h # NULL /\ dims.l # NULL /\ dims.d = NULL
    THEN [dims |-> [dims EXCEPT !.d = dims.l],
          log |-> <<"D=L (assumed)">>, flag |-> TRUE]
    ELSE [dims |-> dims, log |-> <<>>, flag |-> FALSE]

\* ShipOne with the 2D length widened by H instead of replaced by the
\* larger of H and L
ShipOne_drift(dims, type) ==
    IF type = "2D"
    THEN LET max_dim == Max(GetOrZero(dims.h), GetOrZero(dims.l))
         IN  [dims |-> [dims EXCEPT
                          !.l = IF max_dim > 0
                                THEN GetOrZero(dims.h) + GetOrZero(dims.l)
                                ELSE @,
                          !.d = FlatDepth],
              log |-> (IF max_dim > 0 THEN <<"L=max(H,L)">> ELSE <<>>)
                      \o <<"D=5 (2D)">>,
              flag |-> FALSE]
    ELSE IF Truthy(dims.diameter)
    THEN [dims |-> [dims EXCEPT !.l = dims.diameter, !.d = dims.diameter],
          log |-> <<"L=O, D=O">>, flag |-> FALSE]
    ELSE IF Truthy(dims.p)
    THEN [dims |-> [dims EXCEPT !.d = dims.p],
          log |-> <<"D=P">>, flag |-> FALSE]
    ELSE IF dims.h # NULL /\ dims.l # NULL /\ dims.d = NULL
    THEN [dims |-> [dims EXCEPT !.d = dims.l],
          log |-> <<"D=L (assumed)">>, flag |-> TRUE]
    ELSE [dims |-> dims, log |-> <<>>, flag |-> FALSE]

\* the body of the loop for one dims dictionary: the converted copy, the
\* item's log entries and whether HEIGHT_ONLY_OBJECT is appended to flags
ShipOne(dims, type) ==
    IF type = "2D"
    THEN LET max_dim == Max(GetOrZero(dims.h), GetOrZero(dims.l))
         IN  [dims |-> [dims EXCEPT !.l = IF max_dim > 0 THEN max_dim ELSE @,
                                    !.d = FlatDepth],
              log |-> (IF max_dim > 0 THEN <<"L=max(H,L)">> ELSE <<>>)
                      \o <<"D=5 (2D)">>,
              flag |-> FALSE]
    ELSE IF Truthy(dims.diameter)
    THEN [dims |-> [dims EXCEPT !.l = dims.diameter, !.d = dims.diameter],
          log |-> <<"L=O, D=O">>, flag |-> FALSE]
    ELSE IF Truthy(dims.p)
    THEN [dims |-> [dims EXCEPT !.d = dims.p],
          log |-> <<"D=P">>, flag |-> FALSE]
    ELSE IF dims.h # NULL /\ dims.l # NULL /\ dims.d = NULL
    THEN [dims |-> [dims EXCEPT !.d = dims.l],
          log |-> <<"D=L (assumed)">>, flag |-> TRUE]
    ELSE [dims |-> dims, log |-> <<>>, flag |-> FALSE]

RECURSIVE ShipFlags(_, _, _)
\* flags after the loop: one HEIGHT_ONLY_OBJECT appended per assumed depth
ShipFlags(sets, type, flags) ==
    IF sets = <<>> THEN flags
    ELSE ShipFlags(Tail(sets), type,
                   IF ShipOne(Head(sets), type).flag
                   THEN Append(flags, "HEIGHT_ONLY_OBJECT") ELSE flags)

\* returns (converted, log); flags is the caller's list, mutated in place
apply_shipping_rules(sets, type, flags) ==
    [converted |-> [i \in 1..Len(sets) |-> ShipOne(sets[i], type).dims],
     log |-> [i \in 1..Len(sets) |-> ShipOne(sets[i], type).log],
     flags |-> ShipFlags(sets, type, flags)]

(* ------------------------------- process_lot --------------------------- *)
\* sum(d.values()) over the keys the dictionary has
SumValues(d) == GetOrZero(d.h) + GetOrZero(d.l) + GetOrZero(d.p)
                + GetOrZero(d.diameter) + GetOrZero(d.d)

\* max(dim_sets, key=...): the first set of greatest sum
Largest(sets) ==
    LET i == CHOOSE i \in 1..Len(sets) :
                 /\ \A j \in 1..Len(sets) : SumValues(sets[j]) <= SumValues(sets[i])
                 /\ \A j \in 1..(i - 1) : SumValues(sets[j]) < SumValues(sets[i])
    IN  sets[i]

\* the index read by dim_sets[len(dim_sets) % len(dim_sets)], 1-based
CycleIndex(sets) == (Len(sets) % Len(sets)) + 1

RECURSIVE Cycle(_, _)
\* while len(dim_sets) < item_count: dim_sets.append(...)
Cycle(sets, count) ==
    IF Len(sets) < count
    THEN Cycle(Append(sets, sets[CycleIndex(sets)]), count)
    ELSE sets

\* dim_sets * item_count
Replicate(sets, count) == [i \in 1..(Len(sets) * count) |-> sets[1]]

\* the "replicate dimensions if needed" if/elif chain
Reconcile(sets, count) ==
    IF Len(sets) = 1 /\ count > 1 THEN Replicate(sets, count)
    ELSE IF Len(sets) < count THEN Cycle(sets, count)
    ELSE IF Len(sets) > count THEN SubSeq(sets, 1, count)
    ELSE sets

\* the dictionary returned on the "no dimensions found" path
NoDimensionsData(count, type, flags) ==
    [item_count |-> count, item_type |-> type, dimensions |-> <<>>,
     flags |-> Append(flags, "NO_DIMENSIONS"),
     conversion_log |-> << <<"No dimensions found in text">> >>,
     manual_review |-> TRUE]

\* ShippedData with the review decided before the conversion appends flags
ShippedData_early(count, type, sets, flags) ==
    LET shipped == apply_shipping_rules(sets, type, flags)
    IN  [item_count |-> count, item_type |-> type,
         dimensions |-> shipped.converted,
         flags |-> shipped.flags,
         conversion_log |-> shipped.log,
         manual_review |-> (flags # <<>> \/ type = "MANUAL_CHECK")]

\* the dictionary returned after conversion; flags is all_flags before the
\* call of apply_shipping_rules, which appends to it
ShippedData(count, type, sets, flags) ==
    LET shipped == apply_shipping_rules(sets, type, flags)
    IN  [item_count |-> count, item_type |-> type,
         dimensions |-> shipped.converted,
         flags |-> shipped.flags,
         conversion_log |-> shipped.log,
         manual_review |-> (shipped.flags # <<>> \/ type = "MANUAL_CHECK")]

(* ----------------------------- process_dataframe ----------------------- *)
RECURSIVE Join(_)
\* '; '.join(flags): the flags with a separator between neighbours
Join(flags) ==
    IF Len(flags) <= 1 THEN flags
    ELSE <<Head(flags), "; ">> \o Join(Tail(flags))

\* the result row of one item (the pass-through input columns are left out)
ItemRow(data, item_idx, dims) ==
    [ITEM_COUNT |-> data.item_count, ITEM_TYPE |-> data.item_type,
     ITEM_NUMBER |-> item_idx,
     H |-> dims.h, L |-> dims.l, D |-> dims.d, P |-> dims.p,
     Diameter |-> dims.diameter,
     MANUAL_REVIEW_REQUIRED |-> data.manual_review,
     PROCESSING_FLAGS |-> Join(data.flags),
     CONVERSION_LOG |-> data.conversion_log]

\* LotRows without the row added for a lot that has no dimensions
LotRows_noFallback(data) ==
    [i \in 1..Len(data.dimensions) |-> ItemRow(data, i, data.dimensions[i])]

\* the rows appended to results for one lot
LotRows(data) ==
    IF data.dimensions # <<>>
    THEN [i \in 1..Len(data.dimensions) |-> ItemRow(data, i, data.dimensions[i])]
    ELSE <<ItemRow(data, 1, NoDims)>>

\* "handle multiple dimension sets for single item": keep the largest
Collapsed(sets, count) ==
    IF Len(sets) > 1 /\ count = 1 THEN <<Largest(sets)>> ELSE sets

(* ------------------------------- lot texts ----------------------------- *)
Segment(h, l, p, diameter, unlabeled) ==
    [h |-> h, l |-> l, p |-> p, diameter |-> diameter, unlabeled |-> unlabeled]

Text(words, ens, head, segs) ==
    [words |-> words, ens |-> ens, head |-> head, segs |-> segs]

SeqsUpTo(S, n) == UNION {[1..k -> S] : k \in 0..n}

Whole(n) == Token(n, "", 0)

\* integer tokens 0..MaxInt and the decimal tokens "MaxInt,5" / "MaxInt.5"
Tokens == {Whole(n) : n \in 0..MaxInt}
          \cup {Token(MaxInt, sep, 5) : sep \in {",", "."}}

OptToken == {<<>>} \cup {<<t>> : t \in Tokens}

EnsStrings == {<<>>} \cup {<<n>> : n \in 0..MaxEnsemble}

CountWords == {"provenance", "collection", "paire de", "paires", "pair",
               "chaque", "rideau", "deux", "trois", "onze"}

TypeWords == {"taille", "decadrer", "huile", "toile", "technique mixte",
              "assemblage", "panneau"}

SegHP == Segment(<<Whole(2)>>, <<>>, <<Whole(1)>>, <<>>, <<>>)
SegHL == Segment(<<Whole(1)>>, <<Whole(1)>>, <<>>, <<>>, <<>>)
SegDiameter == Segment(<<>>, <<>>, <<>>, <<Whole(1)>>, <<>>)
SegUnlabeled == Segment(<<>>, <<>>, <<>>, <<>>, <<Whole(1), Whole(2)>>)
SegProse == Segment(<<>>, <<>>, <<>>, <<>>, <<>>)

\* lot_text is a text that varies the count signals
CountTexts ==
    \E w \in SUBSET CountWords, e \in EnsStrings \cup {<<1, 1>>},
       s \in {<<>>, <<SegHP>>} :
        lot_text = Text(w, e, {}, s)

\* lot_text is a text that varies the classification signals
TypeTexts ==
    \E hd \in SUBSET TypeWords, e \in {<<>>, <<2>>},
       s \in {<<>>, <<SegHL>>} :
        lot_text = Text({}, e, hd, s)

\* lot_text is a text that varies the classification signals and has a
\* classification word after its first 400 characters
LongTypeTexts ==
    \E hd \in SUBSET TypeWords :
        \E late \in TypeWords \ hd :
            lot_text = Text({late}, <<>>, hd, <<SegHL>>)

\* lot_text is a text that varies the number of dimension sets against the
\* item count
ExpandTexts ==
    \E w \in {{}, {"chaque"}}, e \in EnsStrings,
       hd \in {{}, {"huile"}, {"taille"}},
       s \in SeqsUpTo({SegHP, SegHL, SegDiameter, SegUnlabeled, SegProse},
                      MaxSegments) :
        lot_text = Text(w, e, hd, s)

\* lot_text is a one-segment text that varies the dimensions found
ShippingTexts ==
    \E e \in {<<>>, <<2>>}, hd \in {{}, {"huile"}, {"taille"}, {"panneau"}},
       h \in OptToken, l \in OptToken, p \in OptToken, dia \in OptToken,
       u \in {<<>>, <<Whole(1), Whole(2)>>, <<Whole(2), Whole(1), Whole(1)>>} :
        lot_text = Text({}, e, hd, <<Segment(h, l, p, dia, u)>>)

\* segments with repeated labeled tokens, stray labeled tokens beside an
\* unlabeled group, and unlabeled groups of two and three numbers
DimSegments ==
    {Segment(h, l, p, dia, u) :
        h \in {<<>>, <<Whole(2), Whole(1)>>},
        l \in {<<>>, <<Whole(2)>>},
        p \in {<<>>, <<Whole(1)>>},
        dia \in {<<>>, <<Whole(2)>>},
        u \in {<<>>, <<Whole(1), Whole(2)>>, <<Whole(2), Whole(1), Whole(0)>>}}

\* lot_text is a text that varies what its segments hold
DimTexts ==
    \E s \in SeqsUpTo(DimSegments, MaxDimSegments) :
        lot_text = Text({}, <<>>, {}, s)

LotTexts ==
    \/ CountTexts \/ TypeTexts \/ LongTypeTexts
    \/ ExpandTexts \/ ShippingTexts \/ DimTexts

(* ------------------------------ state machine -------------------------- *)
NoData == [item_count |-> NULL, item_type |-> "", dimensions |-> <<>>,
           flags |-> <<>>, conversion_log |-> <<>>, manual_review |-> FALSE]

\* process_dataframe over a dataframe of one row whose text is lot_text
Init ==
    /\ LotTexts
    /\ pc = "process_lot"
    /\ item_count = NULL
    /\ count_flags = <<>>
    /\ item_type = ""
    /\ type_flags = <<>>
    /\ dim_sets = <<>>
    /\ all_flags = <<>>
    /\ lot_data = NoData
    /\ results = <<>>

\* process_lot, up to "combine flags"
Detect ==
    /\ pc = "process_lot"
    /\ item_count' = detect_item_count(lot_text).count
    /\ count_flags' = detect_item_count(lot_text).flags
    /\ item_type' = classify_item_type(lot_text).type
    /\ type_flags' = classify_item_type(lot_text).flags
    /\ dim_sets' = extract_dimensions(lot_text)
    /\ all_flags' = count_flags' \o type_flags'
    /\ pc' = "expand"
    /\ UNCHANGED <<lot_text, lot_data, results>>

\* process_lot, "handle no dimensions found": the early return
NoDimensions ==
    /\ pc = "expand"
    /\ dim_sets = <<>>
    /\ lot_data' = NoDimensionsData(item_count, item_type, all_flags)
    /\ all_flags' = lot_data'.flags
    /\ pc' = "rows"
    /\ UNCHANGED <<lot_text, item_count, count_flags, item_type, type_flags,
                   dim_sets, results>>

\* process_lot, collapse to the largest set and replicate / cycle / truncate
Expand ==
    /\ pc = "expand"
    /\ dim_sets # <<>>
    /\ all_flags' = IF Len(dim_sets) > 1 /\ item_count = 1
                    THEN Append(all_flags, "MULTIPLE_DIMENSIONS_SINGLE_ITEM")
                    ELSE all_flags
    /\ dim_sets' = Reconcile(Collapsed(dim_sets, item_count), item_count)
    /\ pc' = "shipping"
    /\ UNCHANGED <<lot_text, item_count, count_flags, item_type, type_flags,
                   lot_data, results>>

\* process_lot, "apply conversion rules" to the return
Ship ==
    /\ pc = "shipping"
    /\ lot_data' = ShippedData(item_count, item_type, dim_sets, all_flags)
    /\ all_flags' = lot_data'.flags
    /\ pc' = "rows"
    /\ UNCHANGED <<lot_text, item_count, count_flags, item_type, type_flags,
                   dim_sets, results>>

\* process_dataframe, the rows created for the lot
EmitRows ==
    /\ pc = "rows"
    /\ results' = results \o LotRows(lot_data)
    /\ pc' = "done"
    /\ UNCHANGED <<lot_text, item_count, count_flags, item_type, type_flags,
                   dim_sets, all_flags, lot_data>>

Next == Detect \/ NoDimensions \/ Expand \/ Ship \/ EmitRows

Spec == Init /\ [][Next]_vars

TypeOK ==
    /\ pc \in {"process_lot", "expand", "shipping", "rows", "done"}
    /\ item_type \in {"", "2D", "3D", "MANUAL_CHECK"}
    /\ Len(results) > 0 => pc = "done"

(* -------------------------------- claims ------------------------------- *)
Range(s) == {s[i] : i \in DOMAIN s}

\* the dimension sets extract_dimensions returns for the lot
Extracted == extract_dimensions(lot_text)

\* the dimension set row i was built from, before the shipping rewrite
\* (the all-null set for the row of a lot whose dimension list is empty)
RowSource(i) == IF lot_data.dimensions # <<>> THEN dim_sets[i] ELSE NoDims

\* C1: a lot with at least one extracted dimension set yields exactly
\* item_count dimension sets and item_count output rows, numbered
\* 1..item_count, each carrying ITEM_COUNT = item_count.
C1_RowsEqualItemCount ==
    (pc = "done" /\ Extracted # <<>>) =>
        /\ Len(lot_data.dimensions) = lot_data.item_count
        /\ Len(results) = lot_data.item_count
        /\ \A i \in DOMAIN results :
              /\ results[i].ITEM_NUMBER = i
              /\ results[i].ITEM_COUNT = lot_data.item_count

\* C2: detect_item_count never returns a count below 1, so every output
\* row has ITEM_COUNT >= 1.
C2_CountAtLeastOne ==
    /\ pc # "process_lot" => item_count >= 1
    /\ \A i \in DOMAIN results : results[i].ITEM_COUNT >= 1

\* C3: a lot with no extracted dimension set yields exactly one output row,
\* with H, L, P, Diameter and D null, ITEM_NUMBER 1, the NO_DIMENSIONS flag
\* and MANUAL_REVIEW_REQUIRED true, whatever the item count and type.
C3_NoDimensionsOneRow ==
    (pc = "done" /\ Extracted = <<>>) =>
        /\ Len(results) = 1
        /\ results[1].H = NULL /\ results[1].L = NULL /\ results[1].P = NULL
        /\ results[1].Diameter = NULL /\ results[1].D = NULL
        /\ results[1].ITEM_NUMBER = 1
        /\ "NO_DIMENSIONS" \in Range(results[1].PROCESSING_FLAGS)
        /\ results[1].MANUAL_REVIEW_REQUIRED

\* C3 witness: a lot of several items without dimensions has been emitted
C3_Witness ==
    /\ pc = "done" /\ Extracted = <<>>
    /\ item_count > 1 /\ item_type = "2D"
    /\ Len(results) = 1

\* C4 as stated: every 2D output row has D = 5.0, H as extracted and
\* L = max(H, L extracted), a missing H or L counting as 0.
C4_TwoDStandardized ==
    pc = "done" =>
        \A i \in DOMAIN results :
            results[i].ITEM_TYPE = "2D" =>
                /\ results[i].D = FlatDepth
                /\ results[i].H = RowSource(i).h
                /\ results[i].L = Max(GetOrZero(RowSource(i).h),
                                      GetOrZero(RowSource(i).l))

\* C4 amended: every 2D output row built from a dimension set has D = 5.0,
\* H as extracted, and L = max(H, L extracted) when that maximum is
\* positive; when it is not (H and L missing or zero) L stays as extracted.
C4_TwoDStandardizedWhenPositive ==
    (pc = "done" /\ lot_data.dimensions # <<>>) =>
        \A i \in DOMAIN results :
            results[i].ITEM_TYPE = "2D" =>
                LET max_dim == Max(GetOrZero(dim_sets[i].h),
                                   GetOrZero(dim_sets[i].l))
                IN  /\ results[i].D = FlatDepth
                    /\ results[i].H = dim_sets[i].h
                    /\ max_dim > 0 => results[i].L = max_dim
                    /\ max_dim = 0 => results[i].L = dim_sets[i].l

\* C4 witness: a 2D row whose H exceeds its extracted L has been emitted
C4_Witness ==
    /\ pc = "done" /\ item_type = "2D" /\ lot_data.dimensions # <<>>
    /\ dim_sets[1].l # NULL /\ dim_sets[1].h > dim_sets[1].l
    /\ results[1].L = dim_sets[1].h

\* C5: every 3D output row with a non-null extracted Diameter has
\* L = Diameter and D = Diameter.
C5_DiameterGivesLAndD ==
    pc = "done" =>
        \A i \in DOMAIN results :
            (results[i].ITEM_TYPE = "3D" /\ results[i].Diameter # NULL) =>
                /\ results[i].L = results[i].Diameter
                /\ results[i].D = results[i].Diameter

\* C6: applying apply_shipping_rules to its own output, for the same item
\* type, leaves H, L and D of every dimension set as the first application
\* made them.
C6_ShippingIdempotent ==
    (pc \in {"rows", "done"} /\ lot_data.dimensions # <<>>) =>
        LET first == lot_data.dimensions
            again == apply_shipping_rules(first, item_type, lot_data.flags).converted
        IN  /\ Len(again) = Len(first)
            /\ \A i \in DOMAIN first :
                  /\ again[i].h = first[i].h
                  /\ again[i].l = first[i].l
                  /\ again[i].d = first[i].d

\* C6 witness: the 3D "D = L (assumed)" rule has acted on the lot
C6_Witness ==
    /\ pc = "done" /\ item_type = "3D"
    /\ "HEIGHT_ONLY_OBJECT" \in Range(lot_data.flags)
    /\ lot_data.dimensions[1].d = lot_data.dimensions[1].l

\* C7: when the final flag list is non-empty or the item type is
\* MANUAL_CHECK, MANUAL_REVIEW_REQUIRED is true on every row of the lot.
C7_FlagsForceReview ==
    pc = "done" =>
        \A i \in DOMAIN results :
            (\/ results[i].PROCESSING_FLAGS # <<>>
             \/ all_flags # <<>>
             \/ results[i].ITEM_TYPE = "MANUAL_CHECK")
                => results[i].MANUAL_REVIEW_REQUIRED

\* C7 witness: the only flag of the lot was appended during shipping
C7_Witness ==
    /\ pc = "done" /\ count_flags = <<>> /\ type_flags = <<>>
    /\ results[1].PROCESSING_FLAGS = <<"HEIGHT_ONLY_OBJECT">>
    /\ results[1].MANUAL_REVIEW_REQUIRED

\* C8: whenever the text contains "chaque", detect_item_count flags
\* CHAQUE_DETECTED and the lot requires manual review.
C8_ChaqueAlwaysFlagged ==
    (pc = "done" /\ Occurs("chaque", lot_text.words)) =>
        /\ "CHAQUE_DETECTED" \in Range(count_flags)
        /\ lot_data.manual_review

\* C9: with k extracted sets D and 1 < k < item_count N, the set used for
\* item i is D[(i-1) mod k], for every i in 1..N.
C9_RoundRobinPadding ==
    (pc \in {"shipping", "rows", "done"}
        /\ 1 < Len(Extracted) /\ Len(Extracted) < item_count) =>
        /\ Len(dim_sets) = item_count
        /\ \A i \in 1..item_count :
              dim_sets[i] = Extracted[((i - 1) % Len(Extracted)) + 1]

\* C10: with an ignore-term in the text, detect_item_count returns 2 for
\* "paire de", N for "ensemble de N", and otherwise count 1 with no flags,
\* even if a number word, "pair" or "chaque" occurs.
C10_IgnoreTermSuppresses ==
    (pc # "process_lot"
        /\ \E term \in ignore_terms : Occurs(term, lot_text.words)) =>
        IF Occurs("paire de", lot_text.words) \/ Occurs("paire d", lot_text.words)
        THEN item_count = 2
        ELSE IF lot_text.ens # <<>>
        THEN item_count = int(lot_text.ens)
        ELSE item_count = 1 /\ count_flags = <<>>

\* the signals of the first 400 characters that the rule list reads
Signal(name) ==
    LET hd == lot_text.head
        material == \E mat \in true_2d_materials : Occurs(mat, hd)
    IN  CASE name = "fashion" ->
                Occurs("taille", hd)
                /\ \E size \in {"xs", "s", "m", "l", "xl"} : Occurs(size, hd)
          [] name = "unframe" -> Occurs("decadrer", hd)
          [] name = "assemblage" ->
                \E kw \in assemblage_keywords : Occurs(kw, hd)
          [] name = "mixed on canvas" ->
                (Occurs("technique mixte", hd) \/ Occurs("mixed media", hd))
                /\ Occurs("toile", hd)
          [] name = "panel" ->
                (Occurs("panneau", hd) \/ Occurs("panel", hd)) /\ ~ material
          [] name = "material" -> material
          [] OTHER -> TRUE

\* the rule list of the claim, in its order: signal, type, flags
TypeRules ==
    << <<"fashion", "MANUAL_CHECK", <<"FASHION_ITEM">> >>,
       <<"unframe", "2D", <<"DECADRER_2D">> >>,
       <<"assemblage", "3D", <<"ASSEMBLAGE_3D_MANUAL_CHECK">> >>,
       <<"mixed on canvas", "2D", <<"TECHNIQUE_MIXTE_TOILE_RECLASSIFIED">> >>,
       <<"panel", "3D", <<"PANEL_OBJECT_3D">> >>,
       <<"material", "2D", <<>> >>,
       <<"otherwise", "3D", <<>> >> >>

\* the index of the first rule of the list whose signal is present
FirstRule ==
    CHOOSE i \in DOMAIN TypeRules :
        /\ Signal(TypeRules[i][1])
        /\ \A j \in 1..(i - 1) : ~ Signal(TypeRules[j][1])

\* C11: classify_item_type returns the type and flag of the first rule, in
\* the order fashion, unframe, assemblage, mixed media on canvas, panel
\* without 2D material, 2D material, otherwise 3D, whose signal is in the
\* first 400 characters, and never more than one flag.
C11_FirstMatchingRule ==
    pc # "process_lot" =>
        /\ item_type = TypeRules[FirstRule][2]
        /\ type_flags = TypeRules[FirstRule][3]
        /\ Len(type_flags) <= 1

\* C11 witness: an assemblage keyword and a 2D material met in the first 400
\* characters and the lot was classified 3D
C11_Witness ==
    /\ pc # "process_lot"
    /\ Signal("assemblage") /\ Signal("material")
    /\ ~ Signal("fashion") /\ ~ Signal("unframe")
    /\ item_type = "3D" /\ type_flags = <<"ASSEMBLAGE_3D_MANUAL_CHECK">>

\* the segment has a labeled H, L, P or diameter token
HasLabeled(segment) ==
    segment.h # <<>> \/ segment.l # <<>> \/ segment.p # <<>>
    \/ segment.diameter # <<>>

\* the segment has a complete labeled pattern: H, L and P, or H and diameter
HasComplete(segment) ==
    \/ segment.h # <<>> /\ segment.l # <<>> /\ segment.p # <<>>
    \/ segment.h # <<>> /\ segment.diameter # <<>>

\* the segment has something extract_dimensions can read
HasDimensions(segment) == HasLabeled(segment) \/ segment.unlabeled # <<>>

\* (H, L[, P]) of an unlabeled group, Diameter null
GroupSet(group) ==
    [h |-> normalize_number(group[1]), l |-> normalize_number(group[2]),
     p |-> IF Len(group) = 3 THEN normalize_number(group[3]) ELSE NULL,
     diameter |-> NULL, d |-> NULL]

\* the first occurrence of each label, independently of the others
LabeledSet(segment) ==
    [h |-> IF segment.h = <<>> THEN NULL ELSE normalize_number(Head(segment.h)),
     l |-> IF segment.l = <<>> THEN NULL ELSE normalize_number(Head(segment.l)),
     p |-> IF segment.p = <<>> THEN NULL ELSE normalize_number(Head(segment.p)),
     diameter |-> IF segment.diameter = <<>> THEN NULL
                  ELSE normalize_number(Head(segment.diameter)),
     d |-> NULL]

\* C12 as stated: a segment with an unlabeled "n x n [x n] cm" group and no
\* complete labeled pattern yields exactly the (H, L[, P]) of the group with
\* Diameter null, whatever stray labeled tokens it also holds.
C12_UnlabeledGroupWins ==
    (pc = "expand"
        /\ \A i \in DOMAIN lot_text.segs :
              /\ lot_text.segs[i].unlabeled # <<>>
              /\ ~ HasComplete(lot_text.segs[i])) =>
        /\ Len(dim_sets) = Len(lot_text.segs)
        /\ \A i \in DOMAIN lot_text.segs :
              dim_sets[i] = GroupSet(lot_text.segs[i].unlabeled)

\* C12 amended: per segment the labeled tokens come first, the first
\* occurrence of each of H, L, P and diameter making the set; the unlabeled
\* group gives (H, L[, P]) with Diameter null only in a segment without any
\* labeled token; a segment with neither gives nothing.
C12_LabeledTokensFirst ==
    pc = "expand" =>
        LET kept == SelectSeq(lot_text.segs, HasDimensions)
        IN  /\ Len(dim_sets) = Len(kept)
            /\ \A i \in DOMAIN kept :
                  IF HasLabeled(kept[i])
                  THEN dim_sets[i] = LabeledSet(kept[i])
                  ELSE dim_sets[i] = GroupSet(kept[i].unlabeled)

\* C12 witness: a segment with an unlabeled group and a stray labeled P has
\* been read, and the set is the P alone
C12_Witness ==
    /\ pc = "expand" /\ Len(lot_text.segs) = 2
    /\ lot_text.segs[1].unlabeled # <<>>
    /\ lot_text.segs[1].p # <<>> /\ lot_text.segs[1].h = <<>>
    /\ lot_text.segs[1].l = <<>> /\ lot_text.segs[1].diameter = <<>>
    /\ lot_text.segs[2].unlabeled # <<>> /\ ~ HasLabeled(lot_text.segs[2])
    /\ dim_sets[1].h = NULL /\ dim_sets[1].p # NULL
    /\ dim_sets[2] = GroupSet(lot_text.segs[2].unlabeled)

====
